---- MODULE Spec2Model ----
(***************************************************************************)
(* carbon-bucket: a file store served over HTTP (src/src/main.rs).         *)
(*                                                                         *)
(* The storage root is a directory: a map from names to entries (nothing,  *)
(* a subdirectory, or a regular file with its bytes).  A request is        *)
(* dispatched by the route filters of main() to one of four handlers; a    *)
(* rejection is answered by handle_rejection.                              *)
(*                                                                         *)
(* Strings that the code compares or sorts (file names) are sequences of   *)
(* byte values; fixed message templates are kept as strings, with the      *)
(* formatted argument beside them.                                         *)
(***************************************************************************)
EXTENDS Integers, Sequences, FiniteSets

\* ------------------------------------------------------------------ bounds
\* Longest request body, in bytes, that the model enumerates.
MaxBody == 1

\* Byte values of bodies.
Bytes == {0, 1}

\* File names: "B", "a", "ab" (byte order: "B" < "a" < "ab").
Names == {<<66>>, <<97>>, <<97, 98>>}

\* The two tasks that serve requests concurrently in the race specifications.
Procs == {1, 2}

\* Request bodies: up to MaxBody bytes, all alike, so that a file made of two
\* bodies is told from either.
Bodies == UNION {{[i \in 1..k |-> b] : b \in Bytes} : k \in 0..MaxBody}

\* warp::body::content_length_limit(100 * 1024 * 1024)
ContentLengthLimit == 100 * 1024 * 1024

\* ------------------------------------------------------- the storage root
Absent == [kind |-> "absent", data |-> <<>>]

Directory == [kind |-> "dir", data |-> <<>>]

RegularFile(d) == [kind |-> "file", data |-> d]

\* Path::exists: true of a file and of a directory.
PathExists(s, n) == s[n].kind # "absent"

\* Path::is_file
IsFile(s, n) == s[n].kind = "file"

\* fs::File::create: creates the file, or truncates the one that is there.
\* It fails on a directory (see CreateFails).
FileCreateNoTruncate(s, n) ==
    IF s[n].kind = "file" THEN s ELSE [s EXCEPT ![n] = RegularFile(<<>>)]

FileCreate(s, n) == [s EXCEPT ![n] = RegularFile(<<>>)]

CreateFails(s, n) == s[n].kind = "dir"

\* write_all through a descriptor at offset 0 that stops after k bytes: the
\* first k bytes of the file are replaced, bytes beyond them are kept.
WriteAt0Short(old, bytes, k) ==
    SubSeq(bytes, 1, k - 1) \o SubSeq(old, k + 1, Len(old))

WriteAt0Append(old, bytes, k) == old \o SubSeq(bytes, 1, k)

WriteAt0(old, bytes, k) == SubSeq(bytes, 1, k) \o SubSeq(old, k + 1, Len(old))

\* fs::remove_file: fails on a directory and on a missing file.
RemoveFileKeeps(s, n) == s

RemoveFile(s, n) == [s EXCEPT ![n] = Absent]

RemoveFails(s, n) == s[n].kind # "file"

\* fs::read_dir: the entries of the root, in an order the filesystem picks.
ReadDir(s) ==
    LET present == {n \in Names : PathExists(s, n)}
    IN  {f \in [1..Cardinality(present) -> present] :
            \A i, j \in 1..Cardinality(present) : i # j => f[i] # f[j]}

\* ------------------------------------------------------ String ordering
\* Ord for String: byte-wise lexicographic, a proper prefix is smaller.
RECURSIVE StrLess(_, _)
StrLess(a, b) ==
    IF b = <<>> THEN FALSE
    ELSE IF a = <<>> THEN TRUE
    ELSE IF Head(a) # Head(b) THEN Head(a) < Head(b)
    ELSE StrLess(Tail(a), Tail(b))

\* Insertion of x into the sorted sequence s.
RECURSIVE Insert(_, _)
Insert(x, s) ==
    IF s = <<>> THEN <<x>>
    ELSE IF StrLess(Head(s), x) THEN <<Head(s)>> \o Insert(x, Tail(s))
    ELSE <<x>> \o s

\* entries.sort()
SortUnsorted(s) == s

RECURSIVE Sort(_)
Sort(s) == IF s = <<>> THEN <<>> ELSE Insert(Head(s), Sort(Tail(s)))

\* filter_map of list_files: the names of the entries that are files.
RECURSIVE FileNames(_, _)
FileNames(s, entries) ==
    IF entries = <<>> THEN <<>>
    ELSE IF IsFile(s, Head(entries))
         THEN <<Head(entries)>> \o FileNames(s, Tail(entries))
         ELSE FileNames(s, Tail(entries))

\* ------------------------------------------------------------- requests
NoName == <<>>

\* method and path (first segment `head`, further segments `rest`), the
\* `filename` header, the Content-Length header (`haslen`; its value is the
\* body's size) and the body.  The bytes of a body over the limit are not
\* enumerated: only its size matters, as the body filter never reads it.
Request(method, head, rest, hasname, filename, haslen, size, body) ==
    [method |-> method, head |-> head, rest |-> rest, hasname |-> hasname,
     filename |-> filename, haslen |-> haslen, size |-> size, body |-> body]

NoRequest == Request("", "", <<>>, FALSE, NoName, FALSE, 0, <<>>)

Methods == {"GET", "POST", "DELETE"}

Heads == {"upload", "files", "get", "delete", "other"}

\* Path tails: none, one segment, or two.
Rests == {<<>>, <<<<97>>>>, <<<<97>>, <<97>>>>}

\* Requests that carry a body: POST with a filename header or without, a
\* Content-Length header or chunked, a body within the limit or over it.
BodyRequests ==
    {Request("POST", "upload", <<>>, TRUE, n, l, Len(b), b) :
        n \in Names, l \in BOOLEAN, b \in Bodies}
    \cup {Request("POST", "upload", <<>>, TRUE, n, l, ContentLengthLimit + 1, <<>>) :
        n \in Names, l \in BOOLEAN}
    \cup {Request("POST", "upload", <<>>, FALSE, NoName, TRUE, Len(b), b) :
        b \in {<<>>, <<0>>}}
    \cup {Request("POST", "upload", <<<<97>>>>, TRUE, n, TRUE, 0, <<>>) : n \in Names}

\* Requests without a body.
PlainRequests ==
    {Request(m, h, r, FALSE, NoName, FALSE, 0, <<>>) :
        m \in Methods, h \in Heads, r \in Rests}
    \cup {Request(m, h, <<n>>, FALSE, NoName, FALSE, 0, <<>>) :
        m \in Methods, h \in {"get", "delete"}, n \in Names}

Requests == BodyRequests \cup PlainRequests

\* ----------------------------------------------------------- rejections
\* A warp Rejection is the set of causes it carries.  Rejection::combine
\* drops "not found" as soon as another cause is known, so a rejection is
\* "not found" only when every filter that rejected said so.
NotFound == {"NotFound"}

Passed == {}

Combine(a, b) ==
    IF a = NotFound THEN b ELSE IF b = NotFound THEN a ELSE a \cup b

IsNotFound(rej) == rej = NotFound

Find(rej, cause) == cause \in rej

\* upload_route: path("upload"), post(), content_length_limit, bytes(),
\* header("filename").  path(..) matches the first segment and leaves the rest.
UploadFilter(r) ==
    IF r.head # "upload" THEN NotFound
    ELSE IF r.method # "POST" THEN {"MethodNotAllowed"}
    ELSE IF ~r.haslen THEN {"LengthRequired"}
    ELSE IF r.size > ContentLengthLimit THEN {"PayloadTooLarge"}
    ELSE IF ~r.hasname THEN {"MissingHeader"}
    ELSE Passed

\* list_route: path("files"), get()
ListFilter(r) ==
    IF r.head # "files" THEN NotFound
    ELSE IF r.method # "GET" THEN {"MethodNotAllowed"}
    ELSE Passed

\* download_route: path!("get" / String), get(); path! ends the path.
DownloadFilter(r) ==
    IF r.head # "get" \/ Len(r.rest) # 1 THEN NotFound
    ELSE IF r.method # "GET" THEN {"MethodNotAllowed"}
    ELSE Passed

\* delete_route: path!("delete" / String), delete()
DeleteFilter(r) ==
    IF r.head # "delete" \/ Len(r.rest) # 1 THEN NotFound
    ELSE IF r.method # "DELETE" THEN {"MethodNotAllowed"}
    ELSE Passed

\* routes: upload_route.or(list_route).or(download_route).or(delete_route);
\* the first route whose filters pass handles the request.
Dispatch(r) ==
    IF UploadFilter(r) = Passed THEN "upload"
    ELSE IF ListFilter(r) = Passed THEN "files"
    ELSE IF DownloadFilter(r) = Passed THEN "get"
    ELSE IF DeleteFilter(r) = Passed THEN "delete"
    ELSE "none"

\* The rejection that reaches recover(handle_rejection): the causes of all
\* four routes combined, where the route that ran its handler contributes
\* the handler's own cause.
Rejections(r, own) ==
    LET of(route, filter) == IF Dispatch(r) = route THEN own ELSE filter
    IN  Combine(Combine(Combine(of("upload", UploadFilter(r)),
                                of("files", ListFilter(r))),
                        of("get", DownloadFilter(r))),
                of("delete", DeleteFilter(r)))

\* -------------------------------------------------------------- replies
NoHeader == [text |-> "", arg |-> NoName]

Reply(status, text, arg, bytes, files, count, disposition) ==
    [status |-> status, text |-> text, arg |-> arg, bytes |-> bytes,
     files |-> files, count |-> count, disposition |-> disposition]

NoReply == Reply(0, "", NoName, <<>>, <<>>, 0, NoHeader)

\* warp::reply::with_status(format!(text, arg), status)
WithStatus(text, arg, status) == Reply(status, text, arg, <<>>, <<>>, 0, NoHeader)

\* HeaderValue::from_str accepts the visible bytes, space, tab and obs-text.
ValidHeaderByte(c) == (c >= 32 /\ c # 127) \/ c = 9

\* Content-Disposition of download_file, with its fallback.
ContentDisposition(filename) ==
    IF \A i \in 1..Len(filename) : ValidHeaderByte(filename[i])
    THEN [text |-> "attachment; filename=\"{}\"", arg |-> filename]
    ELSE [text |-> "attachment", arg |-> NoName]

\* handle_rejection
HandleRejectionNoFileError(rej) ==
    IF IsNotFound(rej) THEN WithStatus("Not Found", NoName, 404)
    ELSE IF Find(rej, "BodyDeserializeError") THEN WithStatus("Invalid body", NoName, 400)
    ELSE IF Find(rej, "PayloadTooLarge") THEN WithStatus("Payload too large", NoName, 400)
    ELSE WithStatus("Internal Server Error", NoName, 500)

HandleRejection(rej) ==
    IF IsNotFound(rej) THEN WithStatus("Not Found", NoName, 404)
    ELSE IF Find(rej, "FileError") THEN WithStatus("File operation error", NoName, 500)
    ELSE IF Find(rej, "BodyDeserializeError") THEN WithStatus("Invalid body", NoName, 400)
    ELSE IF Find(rej, "PayloadTooLarge") THEN WithStatus("Payload too large", NoName, 400)
    ELSE WithStatus("Internal Server Error", NoName, 500)

\* warp::reject::custom(FileError), as it leaves the routes.
FileErrorReply(r) == HandleRejection(Rejections(r, {"FileError"}))

\* ---------------------------------------------------------------- state
VARIABLES
    store,      \* the storage root: name -> entry
    resp,       \* per task: the last exchange it completed
    prev,       \* what the exchange before the last one did (history)
    pc,         \* per task: where its handler stands (race specifications)
    req,        \* per task: the request it is serving
    fd,         \* per task: the file its handler holds open
    pre,        \* per task: the entry its request named, as it arrived (history)
    lastDone    \* the task that answered last (history)

vars == <<store, resp, prev, pc, req, fd, pre, lastDone>>

\* An exchange on record: the request, the reply, what failed ("none" when
\* the handler returned Ok, "unrouted" when no handler ran, the name of the
\* call when the call failed for a cause outside the store, "EISDIR" or
\* "ENOENT" when it failed for what the store holds under the name), and
\* what a stored upload found under its name ("created": nothing, "replaced":
\* a file no longer than the body, "shrank": a longer file).
Exchange(r, rep, err, over) ==
    [req |-> r, rep |-> rep, err |-> err, over |-> over]

NoExchange == Exchange(NoRequest, NoReply, "none", "")

\* What upload_file finds under the name it is about to write.
Found(entry, body) ==
    IF entry.kind # "file" THEN "created"
    ELSE IF Len(entry.data) > Len(body) THEN "shrank"
    ELSE "replaced"

\* The name a request addresses, if its route takes one.
Target(r) ==
    IF Dispatch(r) = "upload" THEN r.filename
    ELSE IF Dispatch(r) \in {"get", "delete"} THEN r.rest[1]
    ELSE NoName

\* What an exchange did to the store.
Other == [kind |-> "other", name |-> NoName, body |-> <<>>, over |-> ""]

Summary(x) ==
    IF Dispatch(x.req) = "upload" /\ x.rep.status = 200
    THEN [kind |-> "uploaded", name |-> x.req.filename, body |-> x.req.body,
          over |-> x.over]
    ELSE IF Dispatch(x.req) = "delete" /\ x.rep.status = 200
    THEN [kind |-> "deleted", name |-> x.req.rest[1], body |-> <<>>, over |-> ""]
    ELSE Other

\* What the exchange before request r did to the entry that r reads: a
\* listing reads every entry, a download or a delete the one it names, an
\* upload none.
Before(x, r) ==
    IF Dispatch(r) = "files" THEN Summary(x)
    ELSE IF Dispatch(r) \in {"get", "delete"} /\ Summary(x).name = Target(r)
    THEN Summary(x)
    ELSE Other

\* A descriptor: the name it was opened on, and, once that name has been
\* unlinked, the bytes of the file that lives on behind the descriptor.
NoFd == [open |-> FALSE, name |-> NoName, unlinked |-> FALSE, data |-> <<>>]

OpenFd(n) == [open |-> TRUE, name |-> n, unlinked |-> FALSE, data |-> <<>>]

Idle == [p \in Procs |-> "idle"]

\* The root as main() finds it: created empty, or already there with
\* whatever it holds.  Subdirectories are made outside the service.
Init ==
    /\ store \in [Names -> {Absent, Directory}]
    /\ resp = [p \in Procs |-> NoExchange]
    /\ prev = Other
    /\ pc = Idle
    /\ req = [p \in Procs |-> NoRequest]
    /\ fd = [p \in Procs |-> NoFd]
    /\ pre = [p \in Procs |-> Absent]
    /\ lastDone = 0

\* ------------------------------------------- requests served one by one
UploadRequests == {r \in Requests : Dispatch(r) = "upload"}

ListRequests == {r \in Requests : Dispatch(r) = "files"}

DownloadRequests == {r \in Requests : Dispatch(r) = "get"}

DeleteRequests == {r \in Requests : Dispatch(r) = "delete"}

RejectedRequests == {r \in Requests : Dispatch(r) = "none"}

\* The reply leaves and the exchange is on record.
Serve(r, rep, err, over) ==
    /\ resp' = [resp EXCEPT ![1] = Exchange(r, rep, err, over)]
    /\ prev' = Before(resp[1], r)
    /\ UNCHANGED <<pc, req, fd, pre, lastDone>>

\* upload_file
UploadFile ==
    \E r \in UploadRequests :
        LET n == r.filename
            made == FileCreate(store, n)
        IN  \/ /\ store' = store
               /\ Serve(r, FileErrorReply(r), "create", "")
            \/ /\ CreateFails(store, n)
               /\ store' = store
               /\ Serve(r, FileErrorReply(r), "EISDIR", "")
            \/ /\ ~CreateFails(store, n)
               /\ \E k \in 0..Len(r.body) :
                    /\ store' = [made EXCEPT
                           ![n] = RegularFile(WriteAt0(made[n].data, r.body, k))]
                    /\ IF k = Len(r.body)
                       THEN Serve(r, WithStatus("Successfully uploaded: {}", n, 200),
                                  "none", Found(store[n], r.body))
                       ELSE Serve(r, FileErrorReply(r), "write", "")

\* list_files
ListFiles ==
    \E r \in ListRequests :
        /\ store' = store
        /\ \/ Serve(r, FileErrorReply(r), "read_dir", "")
           \/ \E order \in ReadDir(store) :
                LET entries == Sort(FileNames(store, order))
                IN  Serve(r, Reply(200, "json", NoName, <<>>, entries,
                                   Len(entries), NoHeader), "none", "")

\* download_file
DownloadFileUnchecked ==
    \E r \in DownloadRequests :
        LET n == r.rest[1]
        IN  /\ store' = store
            /\ \/ Serve(r, FileErrorReply(r), "open", "")
               \/ Serve(r, FileErrorReply(r), "read", "")
               \/ /\ ~IsFile(store, n)
                  /\ Serve(r, FileErrorReply(r), IF PathExists(store, n)
                                                  THEN "EISDIR" ELSE "ENOENT", "")
               \/ /\ IsFile(store, n)
                  /\ Serve(r, Reply(200, "", NoName, store[n].data, <<>>, 0,
                                    ContentDisposition(n)), "none", "")

DownloadFile ==
    \E r \in DownloadRequests :
        LET n == r.rest[1]
        IN  /\ store' = store
            /\ IF ~PathExists(store, n)
               THEN Serve(r, WithStatus("File '{}' not found", n, 404), "none", "")
               ELSE \/ Serve(r, FileErrorReply(r), "open", "")
                    \/ Serve(r, FileErrorReply(r), "read", "")
                    \/ /\ ~IsFile(store, n)
                       /\ Serve(r, FileErrorReply(r), "EISDIR", "")
                    \/ /\ IsFile(store, n)
                       /\ Serve(r, Reply(200, "", NoName, store[n].data, <<>>, 0,
                                         ContentDisposition(n)), "none", "")

\* delete_file
DeleteFile ==
    \E r \in DeleteRequests :
        LET n == r.rest[1]
        IN  IF ~PathExists(store, n)
            THEN /\ store' = store
                 /\ Serve(r, WithStatus("File '{}' not found", n, 404), "none", "")
            ELSE \/ /\ store' = store
                    /\ Serve(r, FileErrorReply(r), "remove", "")
                 \/ /\ RemoveFails(store, n)
                    /\ store' = store
                    /\ Serve(r, FileErrorReply(r), "EISDIR", "")
                 \/ /\ ~RemoveFails(store, n)
                    /\ store' = RemoveFile(store, n)
                    /\ Serve(r, WithStatus("File '{}' deleted successfully", n, 200),
                             "none", "")

\* No route takes the request: recover(handle_rejection) answers it.
Reject ==
    \E r \in RejectedRequests :
        /\ store' = store
        /\ Serve(r, HandleRejection(Rejections(r, Passed)), "unrouted", "")

\* Every request, served one after another.
Next == UploadFile \/ ListFiles \/ DownloadFile \/ DeleteFile \/ Reject

Spec == Init /\ [][Next]_vars

\* The requests that reach a handler, served one after another.
NextHandled == UploadFile \/ ListFiles \/ DownloadFile \/ DeleteFile

HandledSpec == Init /\ [][NextHandled]_vars

\* ------------------------------------ two requests served concurrently
\* The root holds at most one entry when the two requests arrive.
InitRace ==
    /\ store \in {s \in [Names -> {Absent, Directory} \cup {RegularFile(b) : b \in Bodies}] :
                     Cardinality({n \in Names : PathExists(s, n)}) <= 1}
    /\ resp = [p \in Procs |-> NoExchange]
    /\ prev = Other
    /\ pc = Idle
    /\ req = [p \in Procs |-> NoRequest]
    /\ fd = [p \in Procs |-> NoFd]
    /\ pre = [p \in Procs |-> Absent]
    /\ lastDone = 0

\* A task takes a request (each task serves one) and enters its handler.
Arrives(p, r, first) ==
    /\ pc[p] = "idle"
    /\ resp[p] = NoExchange
    /\ pc' = [pc EXCEPT ![p] = first]
    /\ req' = [req EXCEPT ![p] = r]
    /\ pre' = [pre EXCEPT ![p] = store[Target(r)]]
    /\ UNCHANGED <<store, resp, prev, fd, lastDone>>

\* The handler of task p returns: its reply leaves.
Answer(p, rep, err) ==
    /\ resp' = [resp EXCEPT ![p] = Exchange(req[p], rep, err, "")]
    /\ pc' = [pc EXCEPT ![p] = "idle"]
    /\ req' = [req EXCEPT ![p] = NoRequest]
    /\ lastDone' = p
    /\ UNCHANGED <<prev, pre>>

\* The handler of task p moves on to its next call.
Goto(p, next) ==
    /\ pc' = [pc EXCEPT ![p] = next]
    /\ UNCHANGED <<resp, prev, req, pre, lastDone>>

Close(p) == fd' = [fd EXCEPT ![p] = NoFd]

\* The bytes behind a descriptor.
Contents(f) == IF f.unlinked THEN f.data ELSE store[f.name].data

UploadArrives(p) == \E r \in UploadRequests : Arrives(p, r, "create")

\* upload_file: fs::File::create(&file_path)
UploadCreate(p) ==
    /\ pc[p] = "create"
    /\ LET n == req[p].filename
       IN  \/ /\ Answer(p, FileErrorReply(req[p]), "create")
              /\ UNCHANGED <<store, fd>>
           \/ /\ CreateFails(store, n)
              /\ Answer(p, FileErrorReply(req[p]), "EISDIR")
              /\ UNCHANGED <<store, fd>>
           \/ /\ ~CreateFails(store, n)
              /\ store' = FileCreate(store, n)
              /\ fd' = [fd EXCEPT ![p] = OpenFd(n)]
              /\ Goto(p, "write")

\* upload_file: file.write_all(&bytes), then the reply
UploadWrite(p) ==
    /\ pc[p] = "write"
    /\ \E k \in 0..Len(req[p].body) :
        /\ IF fd[p].unlinked
           THEN store' = store
           ELSE store' = [store EXCEPT ![fd[p].name] =
                             RegularFile(WriteAt0(@.data, req[p].body, k))]
        /\ Close(p)
        /\ IF k = Len(req[p].body)
           THEN Answer(p, WithStatus("Successfully uploaded: {}", req[p].filename, 200),
                       "none")
           ELSE Answer(p, FileErrorReply(req[p]), "write")

DownloadArrives(p) == \E r \in DownloadRequests : Arrives(p, r, "exists")

\* download_file: if !file_path.exists()
DownloadExists(p) ==
    /\ pc[p] = "exists"
    /\ Dispatch(req[p]) = "get"
    /\ UNCHANGED <<store, fd>>
    /\ IF ~PathExists(store, req[p].rest[1])
       THEN Answer(p, WithStatus("File '{}' not found", req[p].rest[1], 404), "none")
       ELSE Goto(p, "open")

\* download_file: tokio::fs::File::open(&file_path); a path that is gone by
\* now cannot be opened.
DownloadOpenCreates(p) ==
    /\ pc[p] = "open"
    /\ store' = store
    /\ \/ /\ Answer(p, FileErrorReply(req[p]), "open")
          /\ UNCHANGED fd
       \/ /\ fd' = [fd EXCEPT ![p] =
                [open |-> TRUE, name |-> req[p].rest[1],
                 unlinked |-> ~PathExists(store, req[p].rest[1]), data |-> <<>>]]
          /\ Goto(p, "read")

DownloadOpen(p) ==
    /\ pc[p] = "open"
    /\ store' = store
    /\ \/ /\ Answer(p, FileErrorReply(req[p]), "open")
          /\ UNCHANGED fd
       \/ /\ ~PathExists(store, req[p].rest[1])
          /\ Answer(p, FileErrorReply(req[p]), "ENOENT")
          /\ UNCHANGED fd
       \/ /\ PathExists(store, req[p].rest[1])
          /\ fd' = [fd EXCEPT ![p] = OpenFd(req[p].rest[1])]
          /\ Goto(p, "read")

\* download_file: file.read_to_end(&mut contents), then the reply; a
\* directory opens but cannot be read.
DownloadRead(p) ==
    /\ pc[p] = "read"
    /\ store' = store
    /\ Close(p)
    /\ \/ Answer(p, FileErrorReply(req[p]), "read")
       \/ /\ ~fd[p].unlinked /\ ~IsFile(store, fd[p].name)
          /\ Answer(p, FileErrorReply(req[p]), "EISDIR")
       \/ /\ fd[p].unlinked \/ IsFile(store, fd[p].name)
          /\ Answer(p, Reply(200, "", NoName, Contents(fd[p]), <<>>, 0,
                             ContentDisposition(req[p].rest[1])), "none")

DeleteArrives(p) == \E r \in DeleteRequests : Arrives(p, r, "exists")

\* delete_file: if !file_path.exists()
DeleteExists(p) ==
    /\ pc[p] = "exists"
    /\ Dispatch(req[p]) = "delete"
    /\ UNCHANGED <<store, fd>>
    /\ IF ~PathExists(store, req[p].rest[1])
       THEN Answer(p, WithStatus("File '{}' not found", req[p].rest[1], 404), "none")
       ELSE Goto(p, "remove")

\* delete_file: fs::remove_file(&file_path), then the reply.  A file that a
\* descriptor still holds lives on behind that descriptor.
DeleteRemove(p) ==
    /\ pc[p] = "remove"
    /\ LET n == req[p].rest[1]
       IN  \/ /\ Answer(p, FileErrorReply(req[p]), "remove")
              /\ UNCHANGED <<store, fd>>
           \/ /\ RemoveFails(store, n)
              /\ Answer(p, FileErrorReply(req[p]),
                        IF PathExists(store, n) THEN "EISDIR" ELSE "ENOENT")
              /\ UNCHANGED <<store, fd>>
           \/ /\ ~RemoveFails(store, n)
              /\ store' = RemoveFile(store, n)
              /\ fd' = [q \in Procs |->
                          IF fd[q].open /\ ~fd[q].unlinked /\ fd[q].name = n
                          THEN [fd[q] EXCEPT !.unlinked = TRUE, !.data = store[n].data]
                          ELSE fd[q]]
              /\ Answer(p, WithStatus("File '{}' deleted successfully", n, 200), "none")

\* Two uploads race.
NextUploads ==
    \E p \in Procs : UploadArrives(p) \/ UploadCreate(p) \/ UploadWrite(p)

UploadRace == InitRace /\ [][NextUploads]_vars

\* A download and a delete race (or two of either).
NextDownloadDelete ==
    \E p \in Procs :
        \/ DownloadArrives(p) \/ DownloadExists(p) \/ DownloadOpen(p) \/ DownloadRead(p)
        \/ DeleteArrives(p) \/ DeleteExists(p) \/ DeleteRemove(p)

DownloadDeleteRace == InitRace /\ [][NextDownloadDelete]_vars

\* ================================================================ claims
Last == resp[1]

LastRoute == Dispatch(Last.req)

FileOperationError == WithStatus("File operation error", NoName, 500)

\* A call that failed for a cause outside the store; for what the store holds.
FsCalls == {"create", "write", "read_dir", "open", "read", "remove"}

Errnos == {"EISDIR", "ENOENT"}

\* C1: after an upload of body B under name N that was answered 200, a
\* download of N as the very next request is answered 200 with exactly the
\* bytes B (unless an I/O call of the download fails for a cause outside
\* the store).
RoundTrip ==
    (LastRoute = "get" /\ prev.kind = "uploaded" /\ prev.name = Last.req.rest[1]
        /\ Last.err \notin FsCalls)
    => (Last.rep.status = 200 /\ Last.rep.bytes = prev.body)

RoundTripWitness ==
    /\ LastRoute = "get"
    /\ prev.kind = "uploaded"
    /\ prev.name = Last.req.rest[1]
    /\ Last.rep.status = 200
    /\ Last.rep.bytes = prev.body
    /\ prev.body # <<>>

\* C2: an upload of B2 under a name that already holds a file (also a longer
\* one), then a download of that name: the download returns exactly B2, with
\* no byte of the earlier file, and a listing shows the name once.
LastWriteWins ==
    (prev.kind = "uploaded" /\ prev.over \in {"replaced", "shrank"}
        /\ Last.err \notin FsCalls)
    => /\ LastRoute = "get" => (Last.rep.status = 200 /\ Last.rep.bytes = prev.body)
       /\ LastRoute = "files" =>
            Cardinality({i \in 1..Len(Last.rep.files) : Last.rep.files[i] = prev.name}) = 1

LastWriteWinsWitness ==
    /\ LastRoute = "get"
    /\ prev.kind = "uploaded"
    /\ prev.over = "shrank"
    /\ Last.rep.status = 200
    /\ Last.rep.bytes = prev.body

\* C3: a delete of N answered 200 says "File 'N' deleted successfully" and
\* leaves nothing under N; while nothing is under N, every download of N and
\* every delete of N is answered 404 "File 'N' not found" (never 500), and
\* only an upload of N puts something under N again.
DeleteHides ==
    [][\A n \in Names :
        /\ (Dispatch(resp'[1].req) = "delete" /\ resp'[1].req.rest[1] = n
                /\ resp'[1].rep.status = 200)
            => /\ resp'[1].rep = WithStatus("File '{}' deleted successfully", n, 200)
               /\ store'[n] = Absent
        /\ store[n] = Absent =>
            /\ store'[n] # Absent =>
                (Dispatch(resp'[1].req) = "upload" /\ resp'[1].req.filename = n)
            /\ (Dispatch(resp'[1].req) \in {"get", "delete"} /\ resp'[1].req.rest[1] = n)
                => resp'[1].rep = WithStatus("File '{}' not found", n, 404)
      ]_vars

DeleteHidesWitness ==
    /\ LastRoute = "delete"
    /\ prev.kind = "deleted"
    /\ prev.name = Last.req.rest[1]
    /\ Last.rep = WithStatus("File '{}' not found", prev.name, 404)

\* Lexicographic order of names, byte by byte: a is below b when, at the
\* first place where they differ, a has ended or holds the smaller byte.
LexLess(a, b) ==
    \E i \in 1..Len(b) :
        /\ \A j \in 1..(i - 1) : j <= Len(a) /\ a[j] = b[j]
        /\ i > Len(a) \/ a[i] < b[i]

\* C4: a listing answered 200 names exactly the regular files of the root as
\* it is then (every file, no subdirectory), in strictly ascending
\* lexicographic order, and its count is the number of names.
ListExact ==
    (LastRoute = "files" /\ Last.rep.status = 200)
    => LET f == Last.rep.files
       IN  /\ {f[i] : i \in 1..Len(f)} = {n \in Names : store[n].kind = "file"}
           /\ \A i \in 1..(Len(f) - 1) : LexLess(f[i], f[i + 1])
           /\ Last.rep.count = Len(f)

ListExactWitness ==
    /\ LastRoute = "files"
    /\ Last.rep.status = 200
    /\ Last.rep.count = 2
    /\ \E n \in Names : store[n].kind = "dir"

\* C5 as stated: a download of a name under which the root holds no regular
\* file is answered 404 "File 'N' not found" by the handler itself (no call
\* failing for a cause outside the store).
MissingFileNotFound ==
    (LastRoute = "get" /\ store[Last.req.rest[1]].kind # "file"
        /\ Last.err \notin FsCalls)
    => /\ Last.rep = WithStatus("File '{}' not found", Last.req.rest[1], 404)
       /\ Last.err = "none"

\* C5, amended: a download of a name under which the root holds nothing
\* (neither a file nor a subdirectory) is answered 404 "File 'N' not found"
\* by the handler itself, and the store is left as it was.
MissingPathNotFound ==
    [][(Dispatch(resp'[1].req) = "get" /\ store[resp'[1].req.rest[1]] = Absent)
        => /\ resp'[1].rep = WithStatus("File '{}' not found", resp'[1].req.rest[1], 404)
           /\ resp'[1].err = "none"
           /\ store' = store
      ]_vars

MissingPathNotFoundWitness ==
    /\ LastRoute = "get"
    /\ store[Last.req.rest[1]] = Absent
    /\ Last.rep = WithStatus("File '{}' not found", Last.req.rest[1], 404)
    /\ \E n \in Names : store[n].kind = "file"

\* C6: an upload whose body is over the limit is answered 400 "Payload too
\* large", no handler runs for it and the store is left as it was.
OversizeRejected ==
    [][(resp'[1].req.method = "POST" /\ resp'[1].req.head = "upload"
            /\ resp'[1].req.size > ContentLengthLimit)
        => /\ resp'[1].rep = WithStatus("Payload too large", NoName, 400)
           /\ resp'[1].err = "unrouted"
           /\ store' = store
      ]_vars

\* The method and path of one of the four routes.
InRouteTable(r) ==
    \/ r.method = "POST" /\ r.head = "upload"
    \/ r.method = "GET" /\ r.head = "files"
    \/ r.method = "GET" /\ r.head = "get" /\ Len(r.rest) = 1
    \/ r.method = "DELETE" /\ r.head = "delete" /\ Len(r.rest) = 1

\* C7: a request whose method and path are those of none of the four routes
\* (a known path with another method included) is answered 404 "Not Found".
UnroutedNotFound ==
    (Last # NoExchange /\ ~InRouteTable(Last.req))
    => Last.rep = WithStatus("Not Found", NoName, 404)

\* C8: whichever filesystem call of a handler fails (create, write, read_dir,
\* open, read, remove), the reply is 500 with the fixed text "File operation
\* error" and nothing else, and the server can serve the next request.
FailureTranslated ==
    Last.err \in FsCalls \cup Errnos
    => /\ Last.rep = FileOperationError
       /\ ENABLED NextHandled

FailureTranslatedWitness ==
    /\ LastRoute = "upload"
    /\ Last.err = "write"
    /\ Last.rep.status = 500
    /\ store[Last.req.filename] = RegularFile(<<>>)

\* Both tasks have answered 200 to an upload under name n.
BothUploaded(n) ==
    \A p \in Procs :
        /\ pc[p] = "idle"
        /\ Dispatch(resp[p].req) = "upload"
        /\ resp[p].req.filename = n
        /\ resp[p].rep.status = 200

\* The body of the upload that answered last, and of the other one.
LastBody == resp[lastDone].req.body

OtherBody == resp[CHOOSE p \in Procs : p # lastDone].req.body

Step(p) ==
    \/ UploadCreate(p) \/ UploadWrite(p)
    \/ DownloadExists(p) \/ DownloadOpen(p) \/ DownloadRead(p)
    \/ DeleteExists(p) \/ DeleteRemove(p)

\* C10: a download of a file that was there when the request arrived, racing
\* with a delete, is answered 200 with the whole file, 404 "File 'N' not
\* found" or 500 "File operation error"; and while it is not yet answered its
\* handler can take its next step.
RacingDownload ==
    \A p \in Procs :
        /\ (pc[p] = "idle" /\ Dispatch(resp[p].req) = "get" /\ pre[p].kind = "file")
            => resp[p].rep \in
                {Reply(200, "", NoName, pre[p].data, <<>>, 0,
                       ContentDisposition(resp[p].req.rest[1])),
                 WithStatus("File '{}' not found", resp[p].req.rest[1], 404),
                 FileOperationError}
        /\ pc[p] # "idle" => ENABLED Step(p)

RacingDownloadWitness ==
    \E p \in Procs, q \in Procs :
        /\ Dispatch(resp[p].req) = "get"
        /\ pre[p].kind = "file"
        /\ pre[p].data # <<>>
        /\ resp[p].err = "ENOENT"
        /\ resp[p].rep = FileOperationError
        /\ Dispatch(resp[q].req) = "delete"
        /\ resp[q].req.rest[1] = resp[p].req.rest[1]
        /\ resp[q].rep.status = 200
        /\ lastDone = p

====
